---- MODULE Spec2Model ----
(***************************************************************************)
(* Habit tracker: the analytics functions of src/lib/analytics.ts, the     *)
(* two day aggregators (Analytics page, NotionWidget) and the useHabits    *)
(* hook over the habit_records store.                                      *)
(*                                                                         *)
(* A date string 'yyyy-MM-dd' is the record [y, m, d].  A point in time is *)
(* a number of ticks, TicksPerDay ticks to the calendar day, counted from  *)
(* 2023-01-01 00:00 (a Sunday); tick 0 of a day is its midnight.           *)
(***************************************************************************)
EXTENDS Integers, Sequences, FiniteSets, TLC

\* ------------------------------------------------------------------ bounds
NumHabits == 2
MaxDays == 3
MaxDate == 3
TicksPerDay == 2

\* --------------------------------------------------------------- calendar
IsLeap(y) == (y % 4 = 0 /\ y % 100 # 0) \/ y % 400 = 0

DaysInYear(y) == IF IsLeap(y) THEN 366 ELSE 365

DaysInMonth(y, m) ==
  IF m = 2 THEN (IF IsLeap(y) THEN 29 ELSE 28)
  ELSE IF m \in {4, 6, 9, 11} THEN 30 ELSE 31

RECURSIVE DaysBeforeYear(_)
DaysBeforeYear(y) == IF y <= 2023 THEN 0 ELSE DaysBeforeYear(y - 1) + DaysInYear(y - 1)

RECURSIVE DaysBeforeMonth(_, _)
DaysBeforeMonth(y, m) == IF m <= 1 THEN 0 ELSE DaysBeforeMonth(y, m - 1) + DaysInMonth(y, m - 1)

\* the number of the calendar day of a date string (days since 2023-01-01)
DayNumber(date) == DaysBeforeYear(date.y) + DaysBeforeMonth(date.y, date.m) + (date.d - 1)

RECURSIVE YearOfDay(_, _)
YearOfDay(n, y) == IF n < DaysInYear(y) THEN <<y, n>> ELSE YearOfDay(n - DaysInYear(y), y + 1)

RECURSIVE MonthOfDay(_, _, _)
MonthOfDay(n, y, m) ==
  IF n < DaysInMonth(y, m) THEN <<m, n>> ELSE MonthOfDay(n - DaysInMonth(y, m), y, m + 1)

\* the date string of a calendar day number
DateOfDay(n) ==
  LET yr == YearOfDay(n, 2023)
      mo == MonthOfDay(yr[2], yr[1], 1)
  IN  [y |-> yr[1], m |-> mo[1], d |-> mo[2] + 1]

\* parseISO('yyyy-MM-dd'): local midnight of that date
parseISO(date) == DayNumber(date) * TicksPerDay

\* new Date('yyyy-MM-dd').getTime(): midnight of that date
getTime(date) == DayNumber(date) * TicksPerDay

\* Date.prototype.toDateString: the calendar date of a point in time
toDateString(t) == DateOfDay(t \div TicksPerDay)

isAfter(a, b) == a > b

\* date-fns subMonths(t, k): the same day of month k months earlier, clamped
\* to the last day of that month; the time of day is kept
subMonths(t, k) ==
  LET date == toDateString(t)
      tod == t % TicksPerDay
      mi == ((date.y * 12) + (date.m - 1)) - k
      yy == mi \div 12
      mm == (mi % 12) + 1
      dim == DaysInMonth(yy, mm)
      dd == IF date.d >= dim THEN dim ELSE date.d
  IN  DayNumber([y |-> yy, m |-> mm, d |-> dd]) * TicksPerDay + tod

\* a getDay that counts from Monday
getDay_MondayFirst(t) == ((t \div TicksPerDay) + 6) % 7

\* getDay: 0 = Sunday .. 6 = Saturday (2023-01-01 is a Sunday)
getDay(t) == (t \div TicksPerDay) % 7

\* ------------------------------------------------------------ sequences
RECURSIVE Insert(_, _)
\* one step of the stable sort: x goes after every element whose date is not
\* later than its own
Insert(sorted, x) ==
  IF sorted = <<>> THEN <<x>>
  ELSE IF getTime(sorted[Len(sorted)].date) - getTime(x.date) <= 0 THEN Append(sorted, x)
  ELSE Append(Insert(SubSeq(sorted, 1, Len(sorted) - 1), x), sorted[Len(sorted)])

\* mutant of SortByDate: the array is left in input order
SortByDate_Unsorted(s) == s

RECURSIVE SortByDate(_)
\* Array.prototype.sort((a, b) => new Date(a.date).getTime() - new Date(b.date).getTime()):
\* ascending by date, stable (equal dates keep their input order)
SortByDate(s) ==
  IF s = <<>> THEN <<>>
  ELSE Insert(SortByDate(SubSeq(s, 1, Len(s) - 1)), s[Len(s)])

Max2(a, b) == IF a >= b THEN a ELSE b

RECURSIVE Gcd(_, _)
Gcd(a, b) == IF b = 0 THEN a ELSE Gcd(b, a % b)

\* total / count of two non-negative integers, as the fraction in lowest terms
Quotient(total, count) ==
  LET g == Gcd(total, count) IN [num |-> total \div g, den |-> count \div g]

\* ---------------------------------------------------- lib/analytics.ts
\* A DayRecord is [date, completionRate, achievement, habits], habits a
\* sequence of [id, name, completed].

Periods == {"1month", "6months", "1year"}

PeriodMonths(period) ==
  CASE period = "1month" -> 1
    [] period = "6months" -> 6
    [] period = "1year" -> 12
    [] OTHER -> 1

RECURSIVE FilterKept_StrictlyAfter(_, _)
\* mutant of FilterKept: only isAfter, without the same-calendar-day test
FilterKept_StrictlyAfter(recs, startDate) ==
  IF recs = <<>> THEN <<>>
  ELSE LET rest == FilterKept_StrictlyAfter(SubSeq(recs, 1, Len(recs) - 1), startDate)
           record == recs[Len(recs)]
       IN  IF isAfter(parseISO(record.date), startDate) THEN Append(rest, record) ELSE rest

RECURSIVE FilterKept(_, _)
\* the filter call of getFilteredRecords: a new array, input order kept
FilterKept(recs, startDate) ==
  IF recs = <<>> THEN <<>>
  ELSE LET rest == FilterKept(SubSeq(recs, 1, Len(recs) - 1), startDate)
           record == recs[Len(recs)]
           recordDate == parseISO(record.date)
       IN  IF isAfter(recordDate, startDate) \/ toDateString(recordDate) = toDateString(startDate)
           THEN Append(rest, record) ELSE rest

getFilteredRecords(recs, period, now) ==
  FilterKept(recs, subMonths(now, PeriodMonths(period)))

RECURSIVE FindHabit(_, _, _)
\* record.habits.find(h => h.id === habitId): the index of the first match, 0 if none
FindHabit(hs, habitId, i) ==
  IF i > Len(hs) THEN 0
  ELSE IF hs[i].id = habitId THEN i ELSE FindHabit(hs, habitId, i + 1)

\* record.habits.find(h => h.id === habitId)?.completed || false
habitCompleted(record, habitId) ==
  LET i == FindHabit(record.habits, habitId, 1)
  IN  IF i = 0 THEN FALSE ELSE record.habits[i].completed

RECURSIVE MapSet(_, _, _)
\* Map.prototype.set: a new key goes last, an existing key keeps its place
MapSet(map, key, value) ==
  IF map = <<>> THEN <<[key |-> key, value |-> value]>>
  ELSE IF map[1].key = key THEN <<[key |-> key, value |-> value]>> \o Tail(map)
  ELSE <<map[1]>> \o MapSet(Tail(map), key, value)

RECURSIVE CollectHabits(_, _)
CollectHabits(hs, map) ==
  IF hs = <<>> THEN map
  ELSE CollectHabits(Tail(hs), MapSet(map, hs[1].id, hs[1].name))

\* the habits of the first day only
allHabits_FirstDayOnly(recs, map) ==
  IF recs = <<>> THEN map ELSE CollectHabits(recs[1].habits, map)

RECURSIVE allHabits(_, _)
\* the Map of every habit id of the recs, in order of first appearance,
\* with the name seen last
allHabits(recs, map) ==
  IF recs = <<>> THEN map
  ELSE allHabits(Tail(recs), CollectHabits(recs[1].habits, map))

\* mutant of StreakStep: currentStreak follows tempStreak on every completed
\* day, and is not reset at the most recent day
StreakStep_AnyDay(sortedRecords, habitId, i, st) ==
  IF habitCompleted(sortedRecords[i], habitId)
  THEN [currentStreak |-> st.tempStreak + 1,
        longestStreak |-> st.longestStreak,
        tempStreak |-> st.tempStreak + 1]
  ELSE [currentStreak |-> st.currentStreak,
        longestStreak |-> Max2(st.longestStreak, st.tempStreak),
        tempStreak |-> 0]

\* one iteration of the backwards loop over sortedRecords (index i, 1-based)
StreakStep(sortedRecords, habitId, i, st) ==
  IF habitCompleted(sortedRecords[i], habitId)
  THEN [currentStreak |-> IF i = Len(sortedRecords) THEN st.tempStreak + 1 ELSE st.currentStreak,
        longestStreak |-> st.longestStreak,
        tempStreak |-> st.tempStreak + 1]
  ELSE [currentStreak |-> IF i = Len(sortedRecords) THEN 0 ELSE st.currentStreak,
        longestStreak |-> Max2(st.longestStreak, st.tempStreak),
        tempStreak |-> 0]

RECURSIVE StreakLoop(_, _, _, _)
StreakLoop(sortedRecords, habitId, i, st) ==
  IF i < 1 THEN st
  ELSE StreakLoop(sortedRecords, habitId, i - 1, StreakStep(sortedRecords, habitId, i, st))

\* mutant of habitStreak: without the Math.max after the loop
habitStreak_NoFinalMax(sortedRecords, habitId, habitName) ==
  LET st == StreakLoop(sortedRecords, habitId, Len(sortedRecords),
                       [currentStreak |-> 0, longestStreak |-> 0, tempStreak |-> 0])
  IN  [habitId |-> habitId, habitName |-> habitName,
       currentStreak |-> st.currentStreak,
       longestStreak |-> st.longestStreak]

habitStreak(sortedRecords, habitId, habitName) ==
  LET st == StreakLoop(sortedRecords, habitId, Len(sortedRecords),
                       [currentStreak |-> 0, longestStreak |-> 0, tempStreak |-> 0])
  IN  [habitId |-> habitId, habitName |-> habitName,
       currentStreak |-> st.currentStreak,
       longestStreak |-> Max2(st.longestStreak, st.tempStreak)]

calculateStreaks(recs) ==
  IF Len(recs) = 0 THEN <<>>
  ELSE LET habitMap == allHabits(recs, <<>>)
           sortedRecords == SortByDate(recs)
       IN  [k \in 1..Len(habitMap) |->
              habitStreak(sortedRecords, habitMap[k].key, habitMap[k].value)]

\* format(parseISO(date), 'MMM dd'): month and day of month, no year
formatMMMdd(t) == LET date == toDateString(t) IN [m |-> date.m, d |-> date.d]

\* the rows in input order
getCompletionTrends_Unsorted(recs) ==
  [k \in 1..Len(recs) |->
     [date |-> formatMMMdd(parseISO(recs[k].date)),
      completionRate |-> recs[k].completionRate,
      achievement |-> recs[k].achievement]]

\* the rows getCompletionTrends returns; its sort is done on the input array
\* itself (see the GetCompletionTrends action)
getCompletionTrends(recs) ==
  LET sorted == SortByDate(recs)
  IN  [k \in 1..Len(sorted) |->
         [date |-> formatMMMdd(parseISO(sorted[k].date)),
          completionRate |-> sorted[k].completionRate,
          achievement |-> sorted[k].achievement]]

RECURSIVE SumRates(_, _)
\* the sum of completionRate over the recs the set of indices names
SumRates(recs, idx) ==
  IF idx = {} THEN 0
  ELSE LET i == CHOOSE j \in idx : TRUE
       IN  recs[i].completionRate + SumRates(recs, idx \ {i})

getWeeklyPatterns(recs) ==
  [index \in 1..7 |->
     LET idx == {i \in DOMAIN recs : getDay(parseISO(recs[i].date)) = index - 1}
         total == SumRates(recs, idx)
         count == Cardinality(idx)
     IN  [dayName |-> index - 1,
          averageCompletion |-> IF count > 0 THEN Quotient(total, count) ELSE Quotient(0, 1),
          totalDays |-> count]]

startOfWeek(t) == t - (getDay(t) * TicksPerDay) - (t % TicksPerDay)

\* the last instant of the Saturday of the week
endOfWeek(t) == startOfWeek(t) + 7 * TicksPerDay - 1

\* `${format(weekStart, 'MMM dd')} - ${format(weekEnd, 'MMM dd')}`
weekKey(record) ==
  LET recordDate == parseISO(record.date)
  IN  [start |-> formatMMMdd(startOfWeek(recordDate)), end |-> formatMMMdd(endOfWeek(recordDate))]

RECURSIVE weekStats(_, _)
\* the Map weekKey -> indices of the recs of that week, in order of first appearance
weekStats(recs, i) ==
  IF i = 0 THEN <<>>
  ELSE LET map == weekStats(recs, i - 1)
           key == weekKey(recs[i])
           old == {k \in DOMAIN map : map[k].key = key}
       IN  IF old = {} THEN Append(map, [key |-> key, value |-> {i}])
           ELSE [k \in DOMAIN map |->
                   IF k \in old THEN [key |-> key, value |-> map[k].value \cup {i}] ELSE map[k]]

getMonthlyPatterns(recs) ==
  LET map == weekStats(recs, Len(recs))
  IN  [k \in DOMAIN map |->
         LET total == SumRates(recs, map[k].value)
             count == Cardinality(map[k].value)
         IN  [week |-> map[k].key,
              averageCompletion |-> IF count > 0 THEN Quotient(total, count) ELSE Quotient(0, 1),
              totalDays |-> count]]

\* a tally without a bronze counter
CountTier_NoBronze(recs, tier) ==
  IF tier = "bronze" THEN 0
  ELSE Cardinality({i \in DOMAIN recs : recs[i].achievement = tier})

CountTier(recs, tier) == Cardinality({i \in DOMAIN recs : recs[i].achievement = tier})

\* without the early return for an empty array: 0 / 0 is NaN, written as the
\* fraction 0 / 0
getOverallStats_NoEmptyGuard(recs) ==
  [totalDays |-> Len(recs),
   averageCompletion |-> IF Len(recs) = 0 THEN [num |-> 0, den |-> 0]
                         ELSE Quotient(SumRates(recs, DOMAIN recs), Len(recs)),
   goldDays |-> CountTier(recs, "gold"),
   silverDays |-> CountTier(recs, "silver"),
   bronzeDays |-> CountTier(recs, "bronze"),
   failedDays |-> CountTier(recs, "failed")]

getOverallStats(recs) ==
  IF Len(recs) = 0
  THEN [totalDays |-> 0, averageCompletion |-> Quotient(0, 1),
        goldDays |-> 0, silverDays |-> 0, bronzeDays |-> 0, failedDays |-> 0]
  ELSE [totalDays |-> Len(recs),
        averageCompletion |-> Quotient(SumRates(recs, DOMAIN recs), Len(recs)),
        goldDays |-> CountTier(recs, "gold"),
        silverDays |-> CountTier(recs, "silver"),
        bronzeDays |-> CountTier(recs, "bronze"),
        failedDays |-> CountTier(recs, "failed")]

\* ------------------------------------------------ IEEE 754 double arithmetic
\* A positive double is [limbs, exp]: the 53-bit significand
\*   2^52 + limbs[1] * 2^39 + limbs[2] * 2^26 + limbs[3] * 2^13 + limbs[4]
\* (four limbs of 13 bits under the leading one bit) times 2^exp.  The
\* significand does not fit a machine integer here, so the arithmetic is done
\* limb by limb.

RECURSIVE Pow2(_)
Pow2(n) == IF n <= 0 THEN 1 ELSE 2 * Pow2(n - 1)

RECURSIVE LeadingShift(_, _, _)
\* the least z with c * 2^z >= t
LeadingShift(c, t, z) == IF c >= t THEN z ELSE LeadingShift(2 * c, t, z + 1)

\* the significand plus one unit in the last place, renormalised
Increment(x) ==
  LET s4 == x.limbs[4] + 1
      s3 == x.limbs[3] + (s4 \div 8192)
      s2 == x.limbs[2] + (s3 \div 8192)
      s1 == x.limbs[1] + (s2 \div 8192)
  IN  IF s1 \div 8192 = 1
      THEN [limbs |-> <<0, 0, 0, 0>>, exp |-> x.exp + 1]
      ELSE [limbs |-> <<s1, s2 % 8192, s3 % 8192, s4 % 8192>>, exp |-> x.exp]

\* the double c / t for integers 0 < c <= t < 2^17, rounded to nearest, ties
\* to even: long division, 13 bits of quotient at a time
DoubleDivide(c, t) ==
  LET z == LeadingShift(c, t, 0)
      r0 == (c * Pow2(z)) - t
      l1 == (r0 * 8192) \div t
      r1 == (r0 * 8192) % t
      l2 == (r1 * 8192) \div t
      r2 == (r1 * 8192) % t
      l3 == (r2 * 8192) \div t
      r3 == (r2 * 8192) % t
      l4 == (r3 * 8192) \div t
      r4 == (r3 * 8192) % t
      x == [limbs |-> <<l1, l2, l3, l4>>, exp |-> 0 - (z + 52)]
  IN  IF 2 * r4 > t \/ (2 * r4 = t /\ l4 % 2 = 1) THEN Increment(x) ELSE x

\* the double x * 100, rounded to nearest, ties to even
DoubleTimes100(x) ==
  LET p4 == x.limbs[4] * 100
      p3 == (x.limbs[3] * 100) + (p4 \div 8192)
      p2 == (x.limbs[2] * 100) + (p3 \div 8192)
      p1 == (x.limbs[1] * 100) + (p2 \div 8192)
      top == 100 + (p1 \div 8192)
      q1 == p1 % 8192
      q2 == p2 % 8192
      q3 == p3 % 8192
      q4 == p4 % 8192
      \* the product is top * 2^52 + q1..q4, and top has 7 or 8 bits: d bits
      \* are dropped to get back to 53
      d == IF top >= 128 THEN 7 ELSE 6
      lo == Pow2(d)
      hi == Pow2(13 - d)
      kept == [limbs |-> <<(((top % lo) * hi) + (q1 \div lo)) % 8192,
                           ((q1 % lo) * hi) + (q2 \div lo),
                           ((q2 % lo) * hi) + (q3 \div lo),
                           ((q3 % lo) * hi) + (q4 \div lo)>>,
               exp |-> x.exp + d]
      dropped == q4 % lo
      half == lo \div 2
  IN  IF dropped > half \/ (dropped = half /\ kept.limbs[4] % 2 = 1)
      THEN Increment(kept) ELSE kept

\* Math.round of a positive double below 2^12: the nearest integer, a half
\* rounds up
MathRound(x) ==
  LET n == 53 + x.exp
  IN  IF n < 0 THEN 0
      ELSE IF n = 0 THEN 1
      ELSE Pow2(n - 1) + (x.limbs[1] \div Pow2(14 - n)) + ((x.limbs[1] \div Pow2(13 - n)) % 2)

\* ----------------------------------------------------------- aggregators
\* the rate without the guard for an empty habit list
completionRate_NoZeroGuard(completedCount, totalHabits) ==
  IF completedCount = 0 /\ totalHabits > 0 THEN 0
  ELSE IF totalHabits = 0 THEN 100
  ELSE MathRound(DoubleTimes100(DoubleDivide(completedCount, totalHabits)))

\* totalHabits > 0 ? Math.round((completedCount / totalHabits) * 100) : 0
completionRate(completedCount, totalHabits) ==
  IF totalHabits > 0
  THEN IF completedCount = 0 THEN 0
       ELSE MathRound(DoubleTimes100(DoubleDivide(completedCount, totalHabits)))
  ELSE 0

\* components/Analytics.tsx
achievementAnalytics(rate) ==
  IF rate = 100 THEN "gold"
  ELSE IF rate >= 50 THEN "silver"
  ELSE IF rate > 0 THEN "bronze"
  ELSE "failed"

\* the widget with silver from 50 up
achievementWidget_SilverFrom50(rate) ==
  IF rate = 100 THEN "gold"
  ELSE IF rate >= 50 THEN "silver"
  ELSE IF rate > 0 THEN "bronze"
  ELSE "failed"

\* components/NotionWidget.tsx
achievementWidget(rate) ==
  IF rate = 100 THEN "gold"
  ELSE IF rate >= 75 THEN "silver"
  ELSE IF rate >= 50 THEN "bronze"
  ELSE IF rate > 0 THEN "bronze"
  ELSE "failed"

\* a day whose completedCount counts every completed entry of the raw day
convertDay_CountsRawEntries(comp, hs, date, dayRecord) ==
  LET dayHabits == [i \in 1..Len(hs) |->
                      [id |-> hs[i].id, name |-> hs[i].name,
                       completed |-> IF hs[i].id \in DOMAIN dayRecord
                                     THEN dayRecord[hs[i].id].completed ELSE FALSE]]
      completedCount == Cardinality({h \in DOMAIN dayRecord : dayRecord[h].completed})
      totalHabits == Len(dayHabits)
      rate == completionRate(IF completedCount > totalHabits THEN totalHabits ELSE completedCount,
                             totalHabits)
  IN  IF comp = "Analytics"
      THEN [date |-> date, completionRate |-> rate,
            achievement |-> achievementAnalytics(rate), habits |-> dayHabits]
      ELSE [date |-> date, habits |-> dayHabits, completionRate |-> rate,
            achievement |-> achievementWidget(rate),
            completedCount |-> completedCount, totalHabits |-> totalHabits]

\* one AnalyticsDay of convertToAnalyticsFormat: the full current habit list
\* joined with the raw day map (habit id -> [completed]) of that date.  The
\* widget's day carries completedCount and totalHabits as well.
convertDay(comp, hs, date, dayRecord) ==
  LET dayHabits == [i \in 1..Len(hs) |->
                      [id |-> hs[i].id, name |-> hs[i].name,
                       completed |-> IF hs[i].id \in DOMAIN dayRecord
                                     THEN dayRecord[hs[i].id].completed ELSE FALSE]]
      completedCount == Cardinality({i \in 1..Len(dayHabits) : dayHabits[i].completed})
      totalHabits == Len(dayHabits)
      rate == completionRate(completedCount, totalHabits)
  IN  IF comp = "Analytics"
      THEN [date |-> date, completionRate |-> rate,
            achievement |-> achievementAnalytics(rate), habits |-> dayHabits]
      ELSE [date |-> date, habits |-> dayHabits, completionRate |-> rate,
            achievement |-> achievementWidget(rate),
            completedCount |-> completedCount, totalHabits |-> totalHabits]

\* Object.entries(records).map(...): one day per date key, in key order; the
\* records map is a sequence of [date, day] entries in insertion order
convertToAnalyticsFormat(comp, hs, recordsMap) ==
  [k \in 1..Len(recordsMap) |-> convertDay(comp, hs, recordsMap[k].date, recordsMap[k].day)]

\* ------------------------------------------------------------------ state
VARIABLES
  clock,      \* the reading of the clock, new Date()
  input,      \* the array handed to an analytics function
  called,     \* the analytics function called last
  args,       \* its other arguments: <<period>> for getFilteredRecords
  before,     \* the contents of the array when it was called
  result,     \* what it returned
  habits,     \* useHabits, per component: the habit list, a sequence of [id, name]
  records,    \* useHabits, per component: the records map, a sequence of
              \* [date, day] in key order, day a function habit id -> [completed]
  loading,    \* useHabits, per component: the loading flag
  analyticsRecords, \* per component: what convertToAnalyticsFormat returned at
                    \* the last render, <<>> before the first
  habitsTable,      \* table habits of the signed-in user, in created_at order
  habitRecords,     \* table habit_records of the signed-in user: a set of rows
                    \* [habit_id, date, completed]
  loads,      \* per component: which of loadHabits, loadRecords have settled
  calls,      \* the saveDay calls made so far, each [comp, date, dayData, pc,
              \* deleted], deleted the outcome of its delete request
  deletes,    \* the deleteHabit calls made so far, each [comp, id, pc]
  edits,      \* the addHabit and updateHabit calls made so far, each
              \* [comp, op, id, name, pc]
  authPopup,  \* NotionWidget: the window of its authPopup state, Null for none
  opens,      \* how many times openAuthPopup has opened its window
  windows,    \* how many auth windows the widget has opened, the last one
              \* being the one of the name 'auth'
  popupPc,    \* where the Auth page of the auth window is: "none", "form",
              \* "signedIn", "sent", "closed"
  session,    \* whether the session of the Auth page carries both tokens
  hasBC,      \* whether the browser has BroadcastChannel
  inbox,      \* per path, the messages on their way to the widget, each
              \* [type, tokens, source]
  storage,    \* whether localStorage holds widget_auth_success
  sessions,   \* the setSession calls of the widget, each [path, source, pc]
  reloads,    \* the reloads the widget has made, a set of [cause, source, during]
  foreign     \* how many messages other windows have sent to the widget

analyticsVars == <<clock, input, called, args, before, result>>
hookVars == <<habits, records, loading>>
storeVars == <<habitsTable, habitRecords>>
authVars == <<authPopup, opens, windows, popupPc, session, hasBC, inbox, storage, sessions, reloads, foreign>>
asyncVars == <<loads, calls, deletes, edits, authVars>>
aggregateVars == <<hookVars, analyticsRecords>>
vars == <<analyticsVars, aggregateVars, storeVars, asyncVars>>

\* no window, and a window the widget did not open; the windows the widget
\* opens are numbered from 1
Null == 0
Other == -1

\* the ways a message reaches the widget
Paths == {"postMessage", "BroadcastChannel"}

\* the widget as mounted, no auth window opened and nothing on its way
AuthIdle ==
  /\ authPopup = Null
  /\ opens = 0
  /\ windows = 0
  /\ popupPc = "none"
  /\ session = FALSE
  /\ hasBC = TRUE
  /\ inbox = [p \in Paths |-> <<>>]
  /\ storage = FALSE
  /\ sessions = <<>>
  /\ reloads = {}
  /\ foreign = 0

\* --------------------------------------------------- inputs of the analytics
HabitIds == 1..NumHabits

HabitName(id) == <<"habit", id>>

\* the habit list of the hook, ordered by created_at
HabitList(n) == [i \in 1..n |-> [id |-> i, name |-> HabitName(i)]]

FirstDay == DayNumber([y |-> 2024, m |-> 2, d |-> 28])

\* MaxDate consecutive calendar days across the end of February 2024
Dates == {DateOfDay(FirstDay + i) : i \in 0..(MaxDate - 1)}

SeqsUpTo(S, n) == UNION {[1..k -> S] : k \in 0..n}

\* the raw day map in which exactly the habits of S are completed
RawDay(S) == [h \in S |-> [completed |-> TRUE]]

\* days as the Analytics page builds them for a user with n habits: every day
\* lists the whole habit list
UniformDays(n) ==
  {convertDay("Analytics", HabitList(n), date, RawDay(S)) : date \in Dates, S \in SUBSET (1..n)}

\* day lists of a user with one habit, in any order, dates may repeat
OneHabitLists == SeqsUpTo(UniformDays(1), MaxDays)

MaxUniform == 2

\* day lists of a user with NumHabits habits as convertToAnalyticsFormat
\* builds them: one day per date, in any order
AggregatedLists ==
  {s \in SeqsUpTo(UniformDays(NumHabits), MaxUniform) :
     \A i, j \in 1..Len(s) : s[i].date = s[j].date => i = j}

\* days that list any habits in any order (no id twice within a day)
HabitSeqs ==
  UNION {{[i \in 1..k |-> [id |-> f[i][1], name |-> HabitName(f[i][1]), completed |-> f[i][2]]] :
            f \in {g \in [1..k -> HabitIds \X BOOLEAN] :
                     \A i, j \in 1..k : g[i][1] = g[j][1] => i = j}} : k \in 0..NumHabits}

MkDay(date, hs) ==
  LET rate == completionRate(Cardinality({i \in 1..Len(hs) : hs[i].completed}), Len(hs))
  IN  [date |-> date, completionRate |-> rate,
       achievement |-> achievementAnalytics(rate), habits |-> hs]

\* two days on consecutive dates, in either order, whose habit lists need not
\* agree
RaggedLists ==
  {<<MkDay(DateOfDay(FirstDay + o[1]), a), MkDay(DateOfDay(FirstDay + o[2]), b)>> :
     o \in {<<0, 1>>, <<1, 0>>}, a \in HabitSeqs, b \in HabitSeqs}

TierHabits == 4

\* day lists of a user with TierHabits habits, the first k of them completed
\* on a date: with four habits the page gives out all four tiers
TierLists ==
  SeqsUpTo({convertDay("Analytics", HabitList(TierHabits), date, RawDay(1..k)) :
              date \in Dates, k \in 0..TierHabits}, MaxUniform)

\* dates for the weekly and monthly patterns: two Wednesdays a week apart, the
\* Sunday between them, and the Mondays of two weeks eleven years apart that
\* both run from January 1 to January 7
PatternDates ==
  {[y |-> 2024, m |-> 2, d |-> 28], [y |-> 2024, m |-> 3, d |-> 3],
   [y |-> 2024, m |-> 3, d |-> 6], [y |-> 2023, m |-> 1, d |-> 2],
   [y |-> 2034, m |-> 1, d |-> 2]}

\* day lists of a user with one habit on those dates
PatternLists ==
  SeqsUpTo({convertDay("Analytics", HabitList(1), date, RawDay(S)) :
              date \in PatternDates, S \in SUBSET {1}}, MaxUniform)

\* spec.md section 8, scenario 2: five consecutive days with every habit
\* completed, then a sixth day with none completed
Scenario2 ==
  [i \in 1..6 |->
     convertDay("Analytics", HabitList(NumHabits), DateOfDay(FirstDay + i - 1),
                IF i <= 5 THEN RawDay(HabitIds) ELSE RawDay({}))]

Inputs ==
  OneHabitLists \cup AggregatedLists \cup RaggedLists \cup TierLists \cup PatternLists
    \cup {Scenario2}

\* the readings of the clock for which the cutoff of some period falls on one
\* of Dates
Clock ==
  {n * TicksPerDay + tod : n \in FirstDay..(FirstDay + 366 + MaxDate), tod \in 0..(TicksPerDay - 1)}

Nows ==
  {now \in Clock : \E period \in Periods :
     toDateString(subMonths(now, PeriodMonths(period))) \in Dates}

\* 2024-03-31, after midnight
Noon == DayNumber([y |-> 2024, m |-> 3, d |-> 31]) * TicksPerDay + 1

\* the components that use the hook and aggregate its state
Components == {"Analytics", "NotionWidget"}

\* no store traffic: both loads settled, no saveDay call
StoreIdle ==
  /\ loading = [c \in Components |-> FALSE]
  /\ habitsTable = <<>>
  /\ habitRecords = {}
  /\ loads = [c \in Components |-> {"loadHabits", "loadRecords"}]
  /\ calls = <<>>
  /\ deletes = <<>>
  /\ edits = <<>>
  /\ AuthIdle

AggregateIdle ==
  /\ habits = [c \in Components |-> <<>>]
  /\ records = [c \in Components |-> <<>>]
  /\ analyticsRecords = [c \in Components |-> <<>>]
  /\ StoreIdle

NotCalled ==
  /\ called = "none"
  /\ args = <<>>
  /\ before = <<>>
  /\ result = <<>>

\* any day list, one reading of the clock
InitAnalytics ==
  /\ clock = Noon
  /\ input \in Inputs
  /\ NotCalled
  /\ AggregateIdle

MaxFilterDays == 2

\* the day lists of the Analytics page around the cutoff, any reading of the clock
InitFilter ==
  /\ clock \in Nows
  /\ input \in SeqsUpTo(UniformDays(1), MaxFilterDays)
  /\ NotCalled
  /\ AggregateIdle

\* ----------------------------------------------- calls of lib/analytics.ts
GetFilteredRecords ==
  \E period \in Periods :
    /\ called' = "getFilteredRecords"
    /\ args' = <<period>>
    /\ before' = input
    /\ result' = getFilteredRecords(input, period, clock)
    /\ UNCHANGED <<input, clock, aggregateVars, storeVars, asyncVars>>

\* sorts a copy of the array ([...records].sort)
CalculateStreaks ==
  /\ called' = "calculateStreaks"
  /\ args' = <<>>
  /\ before' = input
  /\ result' = calculateStreaks(input)
  /\ UNCHANGED <<input, clock, aggregateVars, storeVars, asyncVars>>

\* sorts the array it was given (records.sort), then maps it
GetCompletionTrends ==
  /\ called' = "getCompletionTrends"
  /\ args' = <<>>
  /\ before' = input
  /\ input' = SortByDate(input)
  /\ result' = getCompletionTrends(input)
  /\ UNCHANGED <<clock, aggregateVars, storeVars, asyncVars>>

GetWeeklyPatterns ==
  /\ called' = "getWeeklyPatterns"
  /\ args' = <<>>
  /\ before' = input
  /\ result' = getWeeklyPatterns(input)
  /\ UNCHANGED <<input, clock, aggregateVars, storeVars, asyncVars>>

GetMonthlyPatterns ==
  /\ called' = "getMonthlyPatterns"
  /\ args' = <<>>
  /\ before' = input
  /\ result' = getMonthlyPatterns(input)
  /\ UNCHANGED <<input, clock, aggregateVars, storeVars, asyncVars>>

GetOverallStats ==
  /\ called' = "getOverallStats"
  /\ args' = <<>>
  /\ before' = input
  /\ result' = getOverallStats(input)
  /\ UNCHANGED <<input, clock, aggregateVars, storeVars, asyncVars>>

NextAnalytics ==
  \/ GetFilteredRecords
  \/ CalculateStreaks
  \/ GetCompletionTrends
  \/ GetWeeklyPatterns
  \/ GetMonthlyPatterns
  \/ GetOverallStats

SpecAnalytics == InitAnalytics /\ [][NextAnalytics]_vars

SpecFilter == InitFilter /\ [][NextAnalytics]_vars

\* --------------------------------------------------------- the aggregators
MaxHabits == 100

\* both components hold the same hook state: n habits, the first k of them
\* completed on the one date of the records map
InitAggregate ==
  /\ clock = Noon
  /\ input = <<>>
  /\ NotCalled
  /\ \E n \in 0..MaxHabits : \E k \in 0..n :
       /\ habits = [c \in Components |-> HabitList(n)]
       /\ records = [c \in Components |->
                       <<[date |-> DateOfDay(FirstDay), day |-> RawDay(1..k)]>>]
  /\ analyticsRecords = [c \in Components |-> <<>>]
  /\ StoreIdle

\* a render of the component: const analyticsRecords = convertToAnalyticsFormat()
Render(c) ==
  /\ analyticsRecords' =
       [analyticsRecords EXCEPT ![c] = convertToAnalyticsFormat(c, habits[c], records[c])]
  /\ UNCHANGED <<analyticsVars, hookVars, storeVars, asyncVars>>

NextAggregate == \E c \in Components : Render(c)

SpecAggregate == InitAggregate /\ [][NextAggregate]_vars

LargeHabits == 200
LargeSpan == 20
MaxMissing == 2

\* both components hold the same hook state: a long habit list, all but a few
\* of the habits completed on the one date of the records map
InitLarge ==
  /\ clock = Noon
  /\ input = <<>>
  /\ NotCalled
  /\ \E n \in (LargeHabits - LargeSpan)..LargeHabits : \E missing \in 0..MaxMissing :
       /\ habits = [c \in Components |-> HabitList(n)]
       /\ records = [c \in Components |->
                       <<[date |-> DateOfDay(FirstDay), day |-> RawDay(1..(n - missing))]>>]
  /\ analyticsRecords = [c \in Components |-> <<>>]
  /\ StoreIdle

SpecLarge == InitLarge /\ [][NextAggregate]_vars

MaxJoinDates == 2

\* the habit lists left of HabitList(NumHabits) after some habits were deleted
CurrentHabits ==
  {SelectSeq(HabitList(NumHabits), LAMBDA habit : habit.id \in S) : S \in SUBSET HabitIds}

\* the raw days: any habit ids of HabitIds, each completed or not
RawDays == UNION {[S -> [completed : BOOLEAN]] : S \in SUBSET HabitIds}

RECURSIVE RawMaps(_)
\* the records maps over the first n of Dates, keys in date order, each date
\* a key or not
RawMaps(n) ==
  IF n = 0 THEN {<<>>}
  ELSE LET date == DateOfDay(FirstDay + n - 1)
       IN  RawMaps(n - 1) \cup
           {Append(map, [date |-> date, day |-> day]) : map \in RawMaps(n - 1), day \in RawDays}

\* both components hold the same hook state: some of the habits are left, the
\* records map still has entries of all of them
InitJoin ==
  /\ clock = Noon
  /\ input = <<>>
  /\ NotCalled
  /\ \E hs \in CurrentHabits : habits = [c \in Components |-> hs]
  /\ \E map \in RawMaps(MaxJoinDates) : records = [c \in Components |-> map]
  /\ analyticsRecords = [c \in Components |-> <<>>]
  /\ StoreIdle

SpecJoin == InitJoin /\ [][NextAggregate]_vars

\* ------------------------------------------ hooks/useHabits.tsx and the store
\* format(new Date(), 'yyyy-MM-dd')
Today == DateOfDay(clock \div TicksPerDay)

MaxCalls == 2
MaxAppDates == 1

\* the dates the user toggles habits on: today and the days before it
AppDates == {DateOfDay((clock \div TicksPerDay) - i) : i \in 0..(MaxAppDates - 1)}

\* the habit_records tables that satisfy UNIQUE(habit_id, date)
Tables ==
  {rows \in SUBSET [habit_id : HabitIds, date : AppDates, completed : BOOLEAN] :
     \A r, q \in rows : (r.habit_id = q.habit_id /\ r.date = q.date) => r = q}

\* the state after the components mounted: nothing loaded yet
Init ==
  /\ clock = Noon
  /\ input = <<>>
  /\ NotCalled
  /\ habits = [c \in Components |-> <<>>]
  /\ records = [c \in Components |-> <<>>]
  /\ loading = [c \in Components |-> TRUE]
  /\ analyticsRecords = [c \in Components |-> <<>>]
  /\ habitsTable = HabitList(NumHabits)
  /\ habitRecords \in Tables
  /\ loads = [c \in Components |-> {}]
  /\ calls = <<>>
  /\ deletes = <<>>
  /\ edits = <<>>
  /\ AuthIdle

\* the rows of the table for one date
RowsOn(date) == {r \in habitRecords : r.date = date}

\* recordsToInsert of saveDay
recordsToInsert(date, dayData) ==
  {[habit_id |-> h, date |-> date, completed |-> dayData[h].completed] : h \in DOMAIN dayData}

\* the recordsMap entry loadRecords builds from the rows of one date
DayOfRows(rows) ==
  [h \in {r.habit_id : r \in rows} |->
     [completed |-> (CHOOSE r \in rows : r.habit_id = h).completed]]

\* records[date] || {}
Lookup(recordsMap, date) ==
  IF \E k \in 1..Len(recordsMap) : recordsMap[k].date = date
  THEN recordsMap[CHOOSE k \in 1..Len(recordsMap) : recordsMap[k].date = date].day
  ELSE RawDay({})

\* a map that holds the saved day only
Spread_OnlyDay(prev, date, dayData) == <<[date |-> date, day |-> dayData]>>

\* { ...prev, [date]: dayData }: an existing key keeps its place, a new one goes last
Spread(prev, date, dayData) ==
  IF \E k \in 1..Len(prev) : prev[k].date = date
  THEN [k \in 1..Len(prev) |->
          IF prev[k].date = date THEN [date |-> date, day |-> dayData] ELSE prev[k]]
  ELSE Append(prev, [date |-> date, day |-> dayData])

\* loadHabits: select * from habits order by created_at; on an error the list
\* stays as it is
LoadHabits(c) ==
  /\ "loadHabits" \notin loads[c]
  /\ loads' = [loads EXCEPT ![c] = @ \cup {"loadHabits"}]
  /\ \E ok \in BOOLEAN :
       habits' = [habits EXCEPT ![c] = IF ok THEN habitsTable ELSE @]
  /\ UNCHANGED <<analyticsVars, records, loading, analyticsRecords, storeVars, calls, deletes, edits, authVars>>

\* loadRecords: select * from habit_records (rows in any order), grouped by
\* date; loading is cleared in the finally block, error or not
LoadRecords(c) ==
  /\ "loadRecords" \notin loads[c]
  /\ loads' = [loads EXCEPT ![c] = @ \cup {"loadRecords"}]
  /\ \E ok \in BOOLEAN :
       IF ok
       THEN LET dates == {r.date : r \in habitRecords}
            IN  \E at \in {f \in [1..Cardinality(dates) -> dates] :
                            \A i, j \in DOMAIN f : f[i] = f[j] => i = j} :
                  records' = [records EXCEPT ![c] =
                    [k \in DOMAIN at |-> [date |-> at[k], day |-> DayOfRows(RowsOn(at[k]))]]]
       ELSE UNCHANGED records
  /\ loading' = [loading EXCEPT ![c] = FALSE]
  /\ UNCHANGED <<analyticsVars, habits, analyticsRecords, storeVars, calls, deletes, edits, authVars>>

\* the habit is on screen: the page shows a spinner while loading, the widget
\* lists whatever habits it has
OnScreen(c, h) ==
  /\ \E i \in 1..Len(habits[c]) : habits[c][i].id = h
  /\ c = "Analytics" => ~loading[c]

\* toggleHabit(habitId, date) up to the first await of saveDay: the day of the
\* records map with the habit flipped is handed to saveDay; the widget toggles
\* today only
ToggleHabit(c, h, date) ==
  /\ Len(calls) < MaxCalls
  /\ OnScreen(c, h)
  /\ c = "NotionWidget" => date = Today
  /\ LET currentRecord == Lookup(records[c], date)
         isCompleted == IF h \in DOMAIN currentRecord THEN currentRecord[h].completed ELSE FALSE
         updatedRecord == [k \in DOMAIN currentRecord \cup {h} |->
                             IF k = h THEN [completed |-> ~isCompleted] ELSE currentRecord[k]]
     IN  calls' = Append(calls, [comp |-> c, date |-> date, dayData |-> updatedRecord,
                                 pc |-> "delete", deleted |-> FALSE])
  /\ UNCHANGED <<analyticsVars, aggregateVars, storeVars, loads, deletes, edits, authVars>>

\* saveDay, first request: delete from habit_records where date = ... and
\* user_id = ...; its error, if any, is not looked at
SaveDayDelete(n) ==
  /\ calls[n].pc = "delete"
  /\ \E ok \in BOOLEAN :
       /\ habitRecords' = IF ok THEN habitRecords \ RowsOn(calls[n].date) ELSE habitRecords
       /\ calls' = [calls EXCEPT ![n].pc = "insert", ![n].deleted = ok]
  /\ UNCHANGED <<analyticsVars, aggregateVars, habitsTable, loads, deletes, edits, authVars>>

\* a table without the UNIQUE(habit_id, date) constraint
Insertable_ForeignKeyOnly(rows) ==
  \A r \in rows : \E i \in 1..Len(habitsTable) : habitsTable[i].id = r.habit_id

\* the insert is refused as a whole when a row breaks UNIQUE(habit_id, date) or
\* the reference to habits(id)
Insertable(rows) ==
  /\ \A r \in rows : \A q \in habitRecords : ~(r.habit_id = q.habit_id /\ r.date = q.date)
  /\ \A r \in rows : \E i \in 1..Len(habitsTable) : habitsTable[i].id = r.habit_id

\* saveDay, second request: insert recordsToInsert; it may fail for any reason
SaveDayInsert(n) ==
  /\ calls[n].pc = "insert"
  /\ LET rows == recordsToInsert(calls[n].date, calls[n].dayData)
     IN  \E ok \in BOOLEAN :
           IF ok /\ Insertable(rows)
           THEN /\ habitRecords' = habitRecords \cup rows
                /\ calls' = [calls EXCEPT ![n].pc = "inserted"]
           ELSE /\ UNCHANGED habitRecords
                /\ calls' = [calls EXCEPT ![n].pc = "error"]
  /\ UNCHANGED <<analyticsVars, aggregateVars, habitsTable, loads, deletes, edits, authVars>>

\* a saveDay whose setRecords is not skipped by the throw
SaveDayReturn_SetsRecordsOnError(n) ==
  /\ calls[n].pc \in {"inserted", "error"}
  /\ records' = [records EXCEPT ![calls[n].comp] = Spread(@, calls[n].date, calls[n].dayData)]
  /\ calls' = [calls EXCEPT ![n].pc = IF calls[n].pc = "inserted" THEN "saved" ELSE "toast"]
  /\ UNCHANGED <<analyticsVars, habits, loading, analyticsRecords, storeVars, loads, deletes, edits, authVars>>

\* saveDay, after the insert: setRecords(prev => ({ ...prev, [date]: dayData })),
\* or the catch block with its toast
SaveDayReturn(n) ==
  /\ calls[n].pc \in {"inserted", "error"}
  /\ IF calls[n].pc = "inserted"
     THEN /\ records' = [records EXCEPT ![calls[n].comp] =
                           Spread(@, calls[n].date, calls[n].dayData)]
          /\ calls' = [calls EXCEPT ![n].pc = "saved"]
     ELSE /\ UNCHANGED records
          /\ calls' = [calls EXCEPT ![n].pc = "toast"]
  /\ UNCHANGED <<analyticsVars, habits, loading, analyticsRecords, storeVars, loads, deletes, edits, authVars>>

MaxDeletes == 1

\* handleDeleteHabit of the page, up to the await of deleteHabit: only the page
\* has a delete button, one per habit on screen
DeleteHabit(c, id) ==
  /\ Len(deletes) < MaxDeletes
  /\ c = "Analytics"
  /\ OnScreen(c, id)
  /\ deletes' = Append(deletes, [comp |-> c, id |-> id, pc |-> "request"])
  /\ UNCHANGED <<analyticsVars, aggregateVars, storeVars, loads, calls, edits, authVars>>

\* deleteHabit, the request: delete from habits where id = ...; the rows of
\* habit_records that reference the habit go with it (on delete cascade)
DeleteHabitRequest(n) ==
  /\ deletes[n].pc = "request"
  /\ \E ok \in BOOLEAN :
       IF ok
       THEN /\ habitsTable' = SelectSeq(habitsTable, LAMBDA habit : habit.id # deletes[n].id)
            /\ habitRecords' = {r \in habitRecords : r.habit_id # deletes[n].id}
            /\ deletes' = [deletes EXCEPT ![n].pc = "deleted"]
       ELSE /\ UNCHANGED storeVars
            /\ deletes' = [deletes EXCEPT ![n].pc = "error"]
  /\ UNCHANGED <<analyticsVars, aggregateVars, loads, calls, edits, authVars>>

\* the habit removed from the first date of the map only
WithoutHabit_FirstDateOnly(prev, id) ==
  [k \in 1..Len(prev) |->
     [date |-> prev[k].date,
      day |-> [h \in DOMAIN prev[k].day \ (IF k = 1 THEN {id} ELSE {}) |-> prev[k].day[h]]]]

\* delete newRecords[date][id] for every date of the map: the date keys stay
WithoutHabit(prev, id) ==
  [k \in 1..Len(prev) |->
     [date |-> prev[k].date,
      day |-> [h \in DOMAIN prev[k].day \ {id} |-> prev[k].day[h]]]]

\* deleteHabit, after the request: the habit leaves the habit list and every
\* day of the records map, or the catch block with its toast
DeleteHabitReturn(n) ==
  /\ deletes[n].pc \in {"deleted", "error"}
  /\ IF deletes[n].pc = "deleted"
     THEN /\ habits' = [habits EXCEPT ![deletes[n].comp] =
                          SelectSeq(@, LAMBDA habit : habit.id # deletes[n].id)]
          /\ records' = [records EXCEPT ![deletes[n].comp] = WithoutHabit(@, deletes[n].id)]
          /\ deletes' = [deletes EXCEPT ![n].pc = "done"]
     ELSE /\ UNCHANGED <<habits, records>>
          /\ deletes' = [deletes EXCEPT ![n].pc = "toast"]
  /\ UNCHANGED <<analyticsVars, loading, analyticsRecords, storeVars, loads, calls, edits, authVars>>

Next ==
  \/ \E c \in Components : LoadHabits(c)
  \/ \E c \in Components : LoadRecords(c)
  \/ \E c \in Components, h \in HabitIds, date \in AppDates : ToggleHabit(c, h, date)
  \/ \E n \in 1..Len(calls) : SaveDayDelete(n)
  \/ \E n \in 1..Len(calls) : SaveDayInsert(n)
  \/ \E n \in 1..Len(calls) : SaveDayReturn(n)
  \/ \E c \in Components, id \in HabitIds : DeleteHabit(c, id)
  \/ \E n \in 1..Len(deletes) : DeleteHabitRequest(n)
  \/ \E n \in 1..Len(deletes) : DeleteHabitReturn(n)

Spec == Init /\ [][Next]_vars

\* ------------------------------------------------- the page in one window
MaxPageDates == 2

\* the days of the calendar of the page: today and the days before it
PageDates == {DateOfDay((clock \div TicksPerDay) - i) : i \in 0..(MaxPageDates - 1)}

\* the habit_records tables over the calendar that satisfy UNIQUE(habit_id, date)
PageTables ==
  {rows \in SUBSET [habit_id : HabitIds, date : PageDates, completed : BOOLEAN] :
     \A r, q \in rows : (r.habit_id = q.habit_id /\ r.date = q.date) => r = q}

\* the recordsMap loadRecords builds when the rows come back in date order
recordsMap(rows) ==
  LET dates == {r.date : r \in rows}
      at == CHOOSE f \in [1..Cardinality(dates) -> dates] :
              \A i, j \in DOMAIN f : i < j => DayNumber(f[i]) < DayNumber(f[j])
  IN  [k \in DOMAIN at |->
         [date |-> at[k], day |-> DayOfRows({r \in rows : r.date = at[k]})]]

\* the page after both loads settled, loadHabits with the habit list and
\* loadRecords with the table or with an error; no other window has habits
InitPage ==
  /\ clock = Noon
  /\ input = <<>>
  /\ NotCalled
  /\ habitsTable = HabitList(NumHabits)
  /\ habitRecords \in PageTables
  /\ habits = [c \in Components |-> IF c = "Analytics" THEN habitsTable ELSE <<>>]
  /\ \E loaded \in {recordsMap(habitRecords), <<>>} :
       records = [c \in Components |-> IF c = "Analytics" THEN loaded ELSE <<>>]
  /\ loading = [c \in Components |-> FALSE]
  /\ analyticsRecords = [c \in Components |-> <<>>]
  /\ loads = [c \in Components |-> {"loadHabits", "loadRecords"}]
  /\ calls = <<>>
  /\ deletes = <<>>
  /\ edits = <<>>
  /\ AuthIdle

NextPage ==
  \/ \E c \in Components, h \in HabitIds, date \in PageDates : ToggleHabit(c, h, date)
  \/ \E n \in 1..Len(calls) : SaveDayDelete(n)
  \/ \E n \in 1..Len(calls) : SaveDayInsert(n)
  \/ \E n \in 1..Len(calls) : SaveDayReturn(n)
  \/ \E c \in Components, id \in HabitIds : DeleteHabit(c, id)
  \/ \E n \in 1..Len(deletes) : DeleteHabitRequest(n)
  \/ \E n \in 1..Len(deletes) : DeleteHabitReturn(n)

SpecPage == InitPage /\ [][NextPage]_vars

\* ------------------------------------------------ addHabit and updateHabit
MaxEdits == 2
MaxNames == 1

\* what the user types into the add and edit dialogs (the colour travels
\* with the name through the same statements)
NewNames == {<<"typed", k>> : k \in 1..MaxNames}

\* the ids the habits of the store can have: the loaded ones and the inserted
AllHabitIds == 1..(NumHabits + MaxEdits)

\* the id the store generates for an inserted row: one no row ever had
NewHabitId == NumHabits + 1 + Cardinality({m \in 1..Len(edits) : edits[m].op = "addHabit" /\ edits[m].id # 0})

\* handleAddHabit: the dialog is on the page, past its loading gate; the
\* trimmed name is not empty
AddHabit(c, name) ==
  /\ Len(edits) < MaxEdits
  /\ c = "Analytics"
  /\ ~loading[c]
  /\ edits' = Append(edits, [comp |-> c, op |-> "addHabit", id |-> 0, name |-> name, pc |-> "request"])
  /\ UNCHANGED <<analyticsVars, aggregateVars, storeVars, loads, calls, deletes, authVars>>

\* addHabit, the request: insert into habits ... select().single()
AddHabitRequest(n) ==
  /\ edits[n].op = "addHabit"
  /\ edits[n].pc = "request"
  /\ \E ok \in BOOLEAN :
       IF ok
       THEN /\ habitsTable' = Append(habitsTable, [id |-> NewHabitId, name |-> edits[n].name])
            /\ edits' = [edits EXCEPT ![n].id = NewHabitId, ![n].pc = "inserted"]
       ELSE /\ UNCHANGED habitsTable
            /\ edits' = [edits EXCEPT ![n].pc = "error"]
  /\ UNCHANGED <<analyticsVars, aggregateVars, habitRecords, loads, calls, deletes, authVars>>

\* addHabit, after the request: setHabits(prev => [...prev, data]), or the
\* catch block with its toast
AddHabitReturn(n) ==
  /\ edits[n].op = "addHabit"
  /\ edits[n].pc \in {"inserted", "error"}
  /\ IF edits[n].pc = "inserted"
     THEN /\ habits' = [habits EXCEPT ![edits[n].comp] =
                          Append(@, [id |-> edits[n].id, name |-> edits[n].name])]
          /\ edits' = [edits EXCEPT ![n].pc = "done"]
     ELSE /\ UNCHANGED habits
          /\ edits' = [edits EXCEPT ![n].pc = "toast"]
  /\ UNCHANGED <<analyticsVars, records, loading, analyticsRecords, storeVars, loads, calls, deletes, authVars>>

\* saveEdit: the habit under edit is one of the page's list
UpdateHabit(c, id, name) ==
  /\ Len(edits) < MaxEdits
  /\ c = "Analytics"
  /\ OnScreen(c, id)
  /\ edits' = Append(edits, [comp |-> c, op |-> "updateHabit", id |-> id, name |-> name, pc |-> "request"])
  /\ UNCHANGED <<analyticsVars, aggregateVars, storeVars, loads, calls, deletes, authVars>>

\* updateHabit, the request: update habits set name, color where id = ...;
\* no row with the id is no error
UpdateHabitRequest(n) ==
  /\ edits[n].op = "updateHabit"
  /\ edits[n].pc = "request"
  /\ \E ok \in BOOLEAN :
       IF ok
       THEN /\ habitsTable' = [k \in 1..Len(habitsTable) |->
                                 IF habitsTable[k].id = edits[n].id
                                 THEN [habitsTable[k] EXCEPT !.name = edits[n].name]
                                 ELSE habitsTable[k]]
            /\ edits' = [edits EXCEPT ![n].pc = "updated"]
       ELSE /\ UNCHANGED habitsTable
            /\ edits' = [edits EXCEPT ![n].pc = "error"]
  /\ UNCHANGED <<analyticsVars, aggregateVars, habitRecords, loads, calls, deletes, authVars>>

\* the rename applied although the store refused it
UpdateHabitReturn_RenamesOnError(n) ==
  /\ edits[n].op = "updateHabit"
  /\ edits[n].pc \in {"updated", "error"}
  /\ habits' = [habits EXCEPT ![edits[n].comp] =
                  [k \in 1..Len(@) |->
                     IF @[k].id = edits[n].id THEN [@[k] EXCEPT !.name = edits[n].name] ELSE @[k]]]
  /\ edits' = [edits EXCEPT ![n].pc = IF edits[n].pc = "updated" THEN "done" ELSE "toast"]
  /\ UNCHANGED <<analyticsVars, records, loading, analyticsRecords, storeVars, loads, calls, deletes, authVars>>

\* updateHabit, after the request: setHabits(prev => prev.map(...)), or the
\* catch block with its toast
UpdateHabitReturn(n) ==
  /\ edits[n].op = "updateHabit"
  /\ edits[n].pc \in {"updated", "error"}
  /\ IF edits[n].pc = "updated"
     THEN /\ habits' = [habits EXCEPT ![edits[n].comp] =
                          [k \in 1..Len(@) |->
                             IF @[k].id = edits[n].id THEN [@[k] EXCEPT !.name = edits[n].name] ELSE @[k]]]
          /\ edits' = [edits EXCEPT ![n].pc = "done"]
     ELSE /\ UNCHANGED habits
          /\ edits' = [edits EXCEPT ![n].pc = "toast"]
  /\ UNCHANGED <<analyticsVars, records, loading, analyticsRecords, storeVars, loads, calls, deletes, authVars>>

\* the habits of a store where every habit of some set is completed on
\* every day of the calendar
CompletedTables ==
  {{[habit_id |-> h, date |-> d, completed |-> TRUE] : h \in S, d \in PageDates} : S \in SUBSET HabitIds}

\* the page after both loads settled, over the tables above
InitHabits ==
  /\ clock = Noon
  /\ input = <<>>
  /\ NotCalled
  /\ habitsTable = HabitList(NumHabits)
  /\ habitRecords \in CompletedTables
  /\ habits = [c \in Components |-> IF c = "Analytics" THEN habitsTable ELSE <<>>]
  /\ \E loaded \in {recordsMap(habitRecords), <<>>} :
       records = [c \in Components |-> IF c = "Analytics" THEN loaded ELSE <<>>]
  /\ loading = [c \in Components |-> FALSE]
  /\ analyticsRecords = [c \in Components |-> <<>>]
  /\ loads = [c \in Components |-> {"loadHabits", "loadRecords"}]
  /\ calls = <<>>
  /\ deletes = <<>>
  /\ edits = <<>>
  /\ AuthIdle

NextHabits ==
  \/ \E c \in Components, name \in NewNames : AddHabit(c, name)
  \/ \E n \in 1..Len(edits) : AddHabitRequest(n)
  \/ \E n \in 1..Len(edits) : AddHabitReturn(n)
  \/ \E c \in Components, id \in AllHabitIds, name \in NewNames : UpdateHabit(c, id, name)
  \/ \E n \in 1..Len(edits) : UpdateHabitRequest(n)
  \/ \E n \in 1..Len(edits) : UpdateHabitReturn(n)
  \/ \E c \in Components, id \in AllHabitIds : DeleteHabit(c, id)
  \/ \E n \in 1..Len(deletes) : DeleteHabitRequest(n)
  \/ \E n \in 1..Len(deletes) : DeleteHabitReturn(n)

SpecHabits == InitHabits /\ [][NextHabits]_vars

\* ------------------------------------------- the sign-in handoff to the widget
MaxOpens == 1
MaxForeign == 1

appVars == <<analyticsVars, aggregateVars, storeVars, loads, calls, deletes, edits>>

\* a setSession of the widget has given it a session
SignedIn == \E n \in 1..Len(sessions) : sessions[n].pc = "done"

\* openAuthPopup, with the render that follows it: window.open(authUrl,
\* 'auth') gives a new window, or the one of that name that is still open and
\* loads the Auth page again; blocked, the new tab is tried, and authPopup
\* ends as the window that opened or as null
openAuthPopup ==
  /\ opens < MaxOpens
  /\ ~SignedIn
  /\ \E blocked \in BOOLEAN :
       IF blocked
       THEN /\ authPopup' = Null
            /\ UNCHANGED <<opens, windows, popupPc, session>>
       ELSE /\ opens' = opens + 1
            /\ windows' = IF popupPc \in {"none", "closed"} THEN windows + 1 ELSE windows
            /\ authPopup' = windows'
            /\ popupPc' = "form"
            /\ session' = FALSE
  /\ UNCHANGED <<hasBC, inbox, storage, sessions, reloads, foreign, appVars>>

\* handleSignIn / handleSignUp succeed on the Auth page: user is set, and the
\* session with its tokens or not
PopupSignIn ==
  /\ popupPc = "form"
  /\ popupPc' = "signedIn"
  /\ session' \in BOOLEAN
  /\ UNCHANGED <<authPopup, opens, windows, hasBC, inbox, storage, sessions, reloads, foreign, appVars>>

\* what the Auth page posts on one path: AUTH_SESSION when the session has
\* both tokens, then AUTH_SUCCESS
Posted ==
  (IF session THEN <<[type |-> "AUTH_SESSION", tokens |-> TRUE, source |-> windows]>> ELSE <<>>)
    \o <<[type |-> "AUTH_SUCCESS", tokens |-> FALSE, source |-> windows]>>

\* the effect of the Auth page in popup mode: the BroadcastChannel posts where
\* the browser has it, the postMessage posts to the opener, the localStorage
\* flag
AuthEffect ==
  /\ popupPc = "signedIn"
  /\ inbox' = [p \in Paths |->
                 IF p = "BroadcastChannel" /\ ~hasBC THEN inbox[p] ELSE inbox[p] \o Posted]
  /\ storage' = TRUE
  /\ popupPc' = "sent"
  /\ UNCHANGED <<authPopup, opens, windows, session, hasBC, sessions, reloads, foreign, appVars>>

\* setTimeout(() => window.close(), 1000)
PopupClose ==
  /\ popupPc = "sent"
  /\ popupPc' = "closed"
  /\ UNCHANGED <<authPopup, opens, windows, session, hasBC, inbox, storage, sessions, reloads, foreign, appVars>>

\* the messages a window the widget did not open can send it
ForeignMessages ==
  {[type |-> "AUTH_SESSION", tokens |-> t, source |-> Other] : t \in BOOLEAN}
    \cup {[type |-> "AUTH_SUCCESS", tokens |-> FALSE, source |-> Other]}

\* another window posts to the widget's window, or to the channel 'auth' of
\* the origin
ForeignPost(path, msg) ==
  /\ foreign < MaxForeign
  /\ path = "BroadcastChannel" => hasBC
  /\ foreign' = foreign + 1
  /\ inbox' = [inbox EXCEPT ![path] = Append(@, msg)]
  /\ UNCHANGED <<authPopup, opens, windows, popupPc, session, hasBC, storage, sessions, reloads, appVars>>

\* a setSession that a message of the source on the path started is under way
Running(path, source) ==
  \E n \in 1..Len(sessions) :
    sessions[n].pc = "running" /\ sessions[n].path = path /\ sessions[n].source = source

\* window.location.reload(): the page starts over, with no authPopup, and what
\* was under way or on its way to the old page is gone
Reload(cause, source) ==
  /\ reloads' = reloads \cup {[cause |-> cause, source |-> source, during |-> Running(cause, source)]}
  /\ authPopup' = Null
  /\ sessions' = [n \in 1..Len(sessions) |->
                    IF sessions[n].pc = "running" THEN [sessions[n] EXCEPT !.pc = "unloaded"] ELSE sessions[n]]
  /\ inbox' = [p \in Paths |-> <<>>]

\* the two branches the handlers share: AUTH_SESSION with both tokens starts
\* setSession, AUTH_SUCCESS reloads, anything else falls through
Accept(path, msg) ==
  IF msg.type = "AUTH_SESSION" /\ msg.tokens
  THEN /\ sessions' = Append(sessions, [path |-> path, source |-> msg.source, popup |-> authPopup, pc |-> "running"])
       /\ inbox' = [inbox EXCEPT ![path] = Tail(@)]
       /\ UNCHANGED <<authPopup, reloads>>
  ELSE IF msg.type = "AUTH_SUCCESS"
       THEN Reload(path, msg.source)
       ELSE /\ inbox' = [inbox EXCEPT ![path] = Tail(@)]
            /\ UNCHANGED <<authPopup, sessions, reloads>>

\* handleMessage, up to its first await: with an authPopup, a message of
\* another source is dropped
handleMessage ==
  /\ inbox["postMessage"] # <<>>
  /\ LET msg == Head(inbox["postMessage"])
     IN  IF authPopup # Null /\ msg.source # authPopup
         THEN /\ inbox' = [inbox EXCEPT !["postMessage"] = Tail(@)]
              /\ UNCHANGED <<authPopup, sessions, reloads>>
         ELSE Accept("postMessage", msg)
  /\ UNCHANGED <<opens, windows, popupPc, session, hasBC, storage, foreign, appVars>>

\* bc.onmessage, up to its first await
bcOnmessage ==
  /\ inbox["BroadcastChannel"] # <<>>
  /\ Accept("BroadcastChannel", Head(inbox["BroadcastChannel"]))
  /\ UNCHANGED <<opens, windows, popupPc, session, hasBC, storage, foreign, appVars>>

\* either handler after setSession settled, with a session or with an error:
\* the authPopup of the handler is closed if it is still open
setSessionReturn(n) ==
  /\ sessions[n].pc = "running"
  /\ \E outcome \in {"done", "failed"} : sessions' = [sessions EXCEPT ![n].pc = outcome]
  /\ popupPc' = IF sessions[n].popup # Null /\ sessions[n].popup = windows THEN "closed" ELSE popupPc
  /\ UNCHANGED <<authPopup, opens, windows, session, hasBC, inbox, storage, reloads, foreign, appVars>>

\* checkAuthSuccess, polled while there is an authPopup
checkAuthSuccess ==
  /\ authPopup # Null
  /\ storage
  /\ storage' = FALSE
  /\ Reload("localStorage", Null)
  /\ UNCHANGED <<opens, windows, popupPc, session, hasBC, foreign, appVars>>

\* the widget mounted in a browser with or without BroadcastChannel
InitAuth ==
  /\ clock = Noon
  /\ input = <<>>
  /\ NotCalled
  /\ habits = [c \in Components |-> <<>>]
  /\ records = [c \in Components |-> <<>>]
  /\ analyticsRecords = [c \in Components |-> <<>>]
  /\ loading = [c \in Components |-> FALSE]
  /\ habitsTable = <<>>
  /\ habitRecords = {}
  /\ loads = [c \in Components |-> {"loadHabits", "loadRecords"}]
  /\ calls = <<>>
  /\ deletes = <<>>
  /\ edits = <<>>
  /\ authPopup = Null
  /\ opens = 0
  /\ windows = 0
  /\ popupPc = "none"
  /\ session = FALSE
  /\ hasBC \in BOOLEAN
  /\ inbox = [p \in Paths |-> <<>>]
  /\ storage = FALSE
  /\ sessions = <<>>
  /\ reloads = {}
  /\ foreign = 0

NextAuth ==
  \/ openAuthPopup
  \/ PopupSignIn
  \/ AuthEffect
  \/ PopupClose
  \/ \E path \in Paths, msg \in ForeignMessages : ForeignPost(path, msg)
  \/ handleMessage
  \/ bcOnmessage
  \/ \E n \in 1..Len(sessions) : setSessionReturn(n)
  \/ checkAuthSuccess

SpecAuth == InitAuth /\ [][NextAuth]_vars

\* =========================================================== properties
\* The properties speak of calendar dates, chronological order and runs in
\* their own terms, not through the definitions above.

SetMax(S) == CHOOSE x \in S : \A y \in S : y <= x

\* date a is on or before date b
OnOrBefore(a, b) ==
  \/ a.y < b.y
  \/ a.y = b.y /\ a.m < b.m
  \/ a.y = b.y /\ a.m = b.m /\ a.d <= b.d

Permute(list, p) == [i \in 1..Len(list) |-> list[p[i]]]

\* the day list in ascending order of date, days of one date in input order
Chronological(list) ==
  LET n == Len(list)
      p == CHOOSE q \in Permutations(1..n) :
             \A i, j \in 1..n : i < j =>
               IF list[q[i]].date = list[q[j]].date THEN q[i] < q[j]
               ELSE OnOrBefore(list[q[i]].date, list[q[j]].date)
  IN  Permute(list, p)

\* the day marks the habit completed
Completed(d, h) == \E i \in 1..Len(d.habits) : d.habits[i].id = h /\ d.habits[i].completed

\* the lengths of the unbroken runs of completed days of the habit in the list
Runs(list, h) ==
  {j - i + 1 : i \in 1..Len(list), j \in 1..Len(list)} \cap
  {n \in 1..Len(list) : \E i \in 1..(Len(list) - n + 1) :
     \A k \in i..(i + n - 1) : Completed(list[k], h)}

LongestRun(list, h) == SetMax(Runs(list, h) \cup {0})

\* the number of consecutive completed days counted back from the last day
TrailingRun(list, h) ==
  SetMax({n \in 0..Len(list) : \A k \in (Len(list) - n + 1)..Len(list) : Completed(list[k], h)})

DistinctDates(list) == \A i, j \in 1..Len(list) : list[i].date = list[j].date => i = j

\* every day lists the same habits, in the same order, under the same names
SameHabitLists(list) ==
  \A i, j \in 1..Len(list) :
    /\ Len(list[i].habits) = Len(list[j].habits)
    /\ \A k \in 1..Len(list[i].habits) :
         /\ list[i].habits[k].id = list[j].habits[k].id
         /\ list[i].habits[k].name = list[j].habits[k].name

Streaks == called = "calculateStreaks"

\* C1: for every habit completed on the most recent day, currentStreak is the
\* number of consecutive completed days counted backwards from that day.
C1_CurrentStreakIsRunningCount ==
  (Streaks /\ DistinctDates(before)) =>
    \A k \in 1..Len(result) :
      LET sorted == Chronological(before)
          h == result[k].habitId
      IN  Completed(sorted[Len(sorted)], h) => result[k].currentStreak = TrailingRun(sorted, h)

\* C2: after each call of an analytics function its input array holds the
\* same elements in the same order as before the call.
C2_InputNotMutated == called # "none" => input = before

\* the habit is completed on calendar day n
CompletedOn(list, h, n) ==
  \E i \in 1..Len(list) : DayNumber(list[i].date) = n /\ Completed(list[i], h)

\* the length of the longest run of consecutive calendar days on each of which
\* the habit is completed
LongestCalendarRun(list, h) ==
  LET days == {DayNumber(list[i].date) : i \in 1..Len(list)}
  IN  SetMax({0} \cup {n \in 1..Len(list) :
                \E first \in days : \A k \in first..(first + n - 1) : CompletedOn(list, h, k)})

\* C5: a calendar date without records counts as not completed for every
\* habit, so no streak returned by calculateStreaks spans a missing date: each
\* streak is at most the longest run of consecutive calendar days completed.
C5_NoStreakSpansMissingDate ==
  (Streaks /\ DistinctDates(before)) =>
    \A k \in 1..Len(result) :
      /\ result[k].longestStreak <= LongestCalendarRun(before, result[k].habitId)
      /\ result[k].currentStreak <= LongestCalendarRun(before, result[k].habitId)

\* C6 as stated: calculateStreaks returns the same list for every permutation
\* of every day list.
C6_OrderIndependent ==
  Streaks =>
    \A p \in Permutations(1..Len(before)) : calculateStreaks(Permute(before, p)) = result

\* C6 as amended: calculateStreaks returns the same list for every permutation
\* of a day list whose dates are pairwise distinct and whose days all list the
\* same habits in the same order under the same names.
C6_OrderIndependentOfAggregatedDays ==
  (Streaks /\ DistinctDates(before) /\ SameHabitLists(before)) =>
    \A p \in Permutations(1..Len(before)) : calculateStreaks(Permute(before, p)) = result

\* a list of three days out of date order, with a streak counted, was given
C6_Witness ==
  /\ Streaks
  /\ DistinctDates(before) /\ SameHabitLists(before)
  /\ Len(before) >= 3
  /\ before # Chronological(before)
  /\ \E k \in 1..Len(result) : result[k].longestStreak >= 2

\* C8: longestStreak is the maximum length of any unbroken run of completed
\* days in the date-sorted day list, the run that reaches the oldest day
\* included.
C8_LongestStreakIsLongestRun ==
  Streaks =>
    \A k \in 1..Len(result) :
      result[k].longestStreak = LongestRun(Chronological(before), result[k].habitId)

\* the longest run is the one that reaches the oldest day, and the most recent
\* day is not completed
C8_Witness ==
  /\ Streaks
  /\ Len(before) >= 3
  /\ \E k \in 1..Len(result) :
       LET sorted == Chronological(before)
           h == result[k].habitId
       IN  /\ result[k].longestStreak = 2
           /\ Completed(sorted[1], h) /\ Completed(sorted[2], h)
           /\ ~Completed(sorted[Len(sorted)], h)

\* C9: when the most recent day of the sorted list is not completed for a
\* habit, currentStreak is 0 and longestStreak is the longest earlier run; five
\* completed days followed by a sixth with none completed give 0 and 5.
C9_GapAtMostRecentDay ==
  Streaks =>
    /\ \A k \in 1..Len(result) :
         LET sorted == Chronological(before)
             h == result[k].habitId
         IN  ~Completed(sorted[Len(sorted)], h) =>
               /\ result[k].currentStreak = 0
               /\ result[k].longestStreak = LongestRun(SubSeq(sorted, 1, Len(sorted) - 1), h)
    /\ before = Scenario2 =>
         /\ Len(result) = NumHabits
         /\ \A k \in 1..Len(result) :
              result[k].currentStreak = 0 /\ result[k].longestStreak = 5

\* calculateStreaks has run on scenario 2
C9_Witness ==
  /\ Streaks
  /\ before = Scenario2
  /\ Len(before) = 6
  /\ \E k \in 1..Len(result) : result[k].currentStreak = 0 /\ result[k].longestStreak = 5

\* the date k calendar months before a date: the latest date of the month k
\* months earlier whose day of month is not after the date's
MonthsBefore(date, k) ==
  LET months == ((date.y * 12) + (date.m - 1)) - k
      year == months \div 12
      month == (months % 12) + 1
  IN  [y |-> year, m |-> month,
       d |-> SetMax({d \in 1..date.d : d <= DaysInMonth(year, month)})]

\* the cutoff date of the period of the last getFilteredRecords call
Cutoff ==
  MonthsBefore(Today, CASE args[1] = "1month" -> 1 [] args[1] = "6months" -> 6 [] args[1] = "1year" -> 12)

Filtered == called = "getFilteredRecords"

\* C10: getFilteredRecords keeps a day exactly when its calendar date is on or
\* after the cutoff (now minus 1, 6 or 12 calendar months), whatever the time
\* of day, and keeps the input order.
C10_KeepsDaysOnOrAfterCutoff ==
  Filtered =>
    LET kept == {i \in 1..Len(before) : OnOrBefore(Cutoff, before[i].date)}
    IN  /\ Len(result) = Cardinality(kept)
        /\ \A i \in kept : result[Cardinality({j \in kept : j <= i})] = before[i]

\* with the clock past midnight, a day dated exactly one month before now was
\* kept and a day dated one month and one day before now was dropped
C10_Witness ==
  /\ Filtered
  /\ args = <<"1month">>
  /\ clock % TicksPerDay > 0
  /\ \E i, j \in 1..Len(before) :
       /\ before[i].date = Cutoff
       /\ DayNumber(before[j].date) = DayNumber(Cutoff) - 1
       /\ result = <<before[i]>>

Rendered(c) == analyticsRecords[c] # <<>>

\* C4: one achievement rule is applied uniformly: the Analytics page and the
\* NotionWidget give a day of the same hook state the same achievement tier.
C4_SameAchievementRule ==
  (Rendered("Analytics") /\ Rendered("NotionWidget")) =>
    \A k \in 1..Len(analyticsRecords["Analytics"]) :
      analyticsRecords["Analytics"][k].achievement = analyticsRecords["NotionWidget"][k].achievement

\* the number of current habits of the component that the raw day marks completed
CompletedCount(c, k) ==
  Cardinality({i \in 1..Len(habits[c]) :
                 /\ habits[c][i].id \in DOMAIN records[c][k].day
                 /\ records[c][k].day[habits[c][i].id].completed})

\* 100 * n / t rounded to the nearest integer, a half rounded up
RoundedPercent(n, t) == ((200 * n) + t) \div (2 * t)

\* C7: for every day built by either aggregator, completionRate is
\* round(100 * completedCount / totalHabits) when totalHabits > 0 and 0 when
\* totalHabits = 0, an integer in 0..100.
C7_CompletionRateIsRoundedPercent ==
  \A c \in Components :
    \A k \in 1..Len(analyticsRecords[c]) :
      /\ analyticsRecords[c][k].completionRate \in 0..100
      /\ analyticsRecords[c][k].completionRate =
           IF Len(habits[c]) > 0 THEN RoundedPercent(CompletedCount(c, k), Len(habits[c])) ELSE 0

\* C3: saving a day replaces that day's records atomically: whenever the rows
\* of a date change, they change to exactly the set some saveDay call was given
\* for that date, never to an intermediate set.
C3_DayReplacedAtomically ==
  [][\A date \in AppDates :
       \/ RowsOn(date)' = RowsOn(date)
       \/ \E n \in 1..Len(calls') :
            /\ calls'[n].date = date
            /\ RowsOn(date)' = recordsToInsert(date, calls'[n].dayData)]_vars

\* the rows a table holds for one date, for one habit
RowsOfDate(table, date) == {r \in table : r.date = date}

RowsOfHabit(table, id) == {r \in table : r.habit_id = id}

\* the rows hold exactly the entries of the day data: one row per habit id of
\* it, with its completed flag, and no other row
HoldsExactly(rows, dayData) ==
  /\ {r.habit_id : r \in rows} = DOMAIN dayData
  /\ Cardinality(rows) = Cardinality(DOMAIN dayData)
  /\ \A r \in rows : r.completed = dayData[r.habit_id].completed

\* what a records map holds under a date key: <<day>>, or <<>> without the key
Entry(map, date) ==
  IF \E k \in 1..Len(map) : map[k].date = date
  THEN <<map[CHOOSE k \in 1..Len(map) : map[k].date = date].day>>
  ELSE <<>>

C13_OneRecordPerHabitAndDate ==
  \A r, q \in habitRecords :
    (r.habit_id = q.habit_id /\ r.date = q.date) => r.completed = q.completed

\* two saves of one date from two windows overlapped, one was refused, and a
\* deleteHabit went through as well
C13_Witness ==
  /\ \E n, m \in 1..Len(calls) :
       /\ calls[n].comp # calls[m].comp
       /\ calls[n].date = calls[m].date
       /\ calls[n].pc = "saved" /\ calls[m].pc = "toast"
       /\ calls[n].deleted /\ calls[m].deleted
       /\ DOMAIN calls[n].dayData \cap DOMAIN calls[m].dayData # {}
  /\ \E n \in 1..Len(deletes) : deletes[n].pc = "done"
  /\ habitRecords # {}

\* C14: a deleteHabit(id) whose request succeeds leaves no habit_records row
\* with that habit_id, then and ever after, and its state update leaves the
\* records map without an entry for the id under any date; rows and entries of
\* all other habits are unchanged by both steps.
C14_DeleteHabitRemovesItsRecords ==
  [][\A n \in 1..Len(deletes) : \A id \in HabitIds : \A c \in Components :
       (deletes[n].id = id /\ deletes[n].comp = c) =>
         /\ (deletes[n].pc = "request" /\ deletes'[n].pc = "deleted") =>
              \A h \in HabitIds \ {id} :
                RowsOfHabit(habitRecords', h) = RowsOfHabit(habitRecords, h)
         /\ deletes'[n].pc \in {"deleted", "done"} => RowsOfHabit(habitRecords', id) = {}
         /\ (deletes[n].pc = "deleted" /\ deletes'[n].pc = "done") =>
              /\ Len(records'[c]) = Len(records[c])
              /\ \A k \in 1..Len(records[c]) :
                   /\ records'[c][k].date = records[c][k].date
                   /\ id \notin DOMAIN records'[c][k].day
                   /\ \A h \in HabitIds \ {id} :
                        /\ h \in DOMAIN records'[c][k].day <=> h \in DOMAIN records[c][k].day
                        /\ h \in DOMAIN records[c][k].day =>
                             records'[c][k].day[h] = records[c][k].day[h]]_vars

\* a deleteHabit is done; the map has two dates, one of them empty now, the
\* other with the entry of the other habit, whose rows are still in the store
C14_Witness ==
  \E n \in 1..Len(deletes) : \E h \in HabitIds :
    LET map == records[deletes[n].comp]
    IN  /\ deletes[n].pc = "done"
        /\ h # deletes[n].id
        /\ RowsOfHabit(habitRecords, deletes[n].id) = {}
        /\ RowsOfHabit(habitRecords, h) # {}
        /\ Len(map) = 2
        /\ \E k, j \in 1..2 : DOMAIN map[k].day = {} /\ DOMAIN map[j].day = {h}

\* the raw day without the entries of habits that are not in the habit list
CurrentEntries(hs, day) ==
  [h \in DOMAIN day \cap {hs[i].id : i \in 1..Len(hs)} |-> day[h]]

\* C15: every aggregated day lists exactly the current habits, in habit-list
\* order, with the id and name of each; a habit is completed exactly when the
\* raw day has an entry for it that is completed; and the day, its
\* completionRate included, is the one built from the raw day without the
\* entries of habits that are no longer in the list.
C15_JoinsAgainstCurrentHabits ==
  \A c \in Components :
    Rendered(c) =>
      /\ Len(analyticsRecords[c]) = Len(records[c])
      /\ \A k \in 1..Len(records[c]) :
           LET day == analyticsRecords[c][k]
               raw == records[c][k].day
           IN  /\ day.date = records[c][k].date
               /\ Len(day.habits) = Len(habits[c])
               /\ \A i \in 1..Len(habits[c]) :
                    /\ day.habits[i].id = habits[c][i].id
                    /\ day.habits[i].name = habits[c][i].name
                    /\ day.habits[i].completed <=>
                         (habits[c][i].id \in DOMAIN raw /\ raw[habits[c][i].id].completed)
               /\ day = convertDay(c, habits[c], day.date, CurrentEntries(habits[c], raw))

\* a day was built for one remaining habit with no raw entry while the raw day
\* has a completed entry of a deleted habit
C15_Witness ==
  \E c \in Components : \E k \in 1..Len(analyticsRecords[c]) :
    /\ Len(habits[c]) = 1
    /\ habits[c][1].id \notin DOMAIN records[c][k].day
    /\ \E h \in DOMAIN records[c][k].day : records[c][k].day[h].completed
    /\ analyticsRecords[c][k].completionRate = 0
    /\ analyticsRecords[c][k].habits[1].completed = FALSE

\* C17: with an empty habit list every aggregated day has completionRate 0 and
\* achievement failed, whatever the raw records of the date contain.
C17_EmptyHabitListFails ==
  \A c \in Components :
    Len(habits[c]) = 0 =>
      \A k \in 1..Len(analyticsRecords[c]) :
        /\ analyticsRecords[c][k].completionRate = 0
        /\ analyticsRecords[c][k].achievement = "failed"

\* both components built a day from a raw day with completed entries and no
\* habits
C17_Witness ==
  \A c \in Components :
    /\ Len(habits[c]) = 0
    /\ Len(analyticsRecords[c]) = MaxJoinDates
    /\ \E k \in 1..Len(records[c]) : \E h \in DOMAIN records[c][k].day :
         records[c][k].day[h].completed

\* the two documented rules
TierFrom(rate, silverFrom) ==
  IF rate = 100 THEN "gold"
  ELSE IF rate >= silverFrom THEN "silver"
  ELSE IF rate > 0 THEN "bronze"
  ELSE "failed"

\* C16: the Analytics page gives every day the tier 100 -> gold, >= 50 ->
\* silver, > 0 -> bronze, else failed of its completionRate, the widget the
\* tier 100 -> gold, >= 75 -> silver, > 0 -> bronze, else failed; for two
\* habits with only the first completed the rate is 50, silver on the page and
\* bronze in the widget.
C16_DocumentedAchievementRules ==
  \A c \in Components : \A k \in 1..Len(analyticsRecords[c]) :
    LET day == analyticsRecords[c][k]
    IN  /\ day.completionRate \in 0..100
        /\ day.achievement = TierFrom(day.completionRate, IF c = "Analytics" THEN 50 ELSE 75)
        /\ (Len(habits[c]) = 2 /\ CompletedCount(c, k) = 1) =>
             /\ day.completionRate = 50
             /\ day.achievement = IF c = "Analytics" THEN "silver" ELSE "bronze"

\* both components built the day of two habits with only the first completed
C16_Witness ==
  /\ \A c \in Components : Len(habits[c]) = 2 /\ Len(analyticsRecords[c]) = 1
  /\ \A c \in Components : DOMAIN records[c][1].day = {1}
  /\ analyticsRecords["Analytics"][1].achievement = "silver"
  /\ analyticsRecords["NotionWidget"][1].achievement = "bronze"

Tiers == {"gold", "silver", "bronze", "failed"}

\* C18: for every list of days whose achievement is one of the four tiers,
\* getOverallStats returns goldDays + silverDays + bronzeDays + failedDays equal
\* to the list length, and to totalDays.
C18_TierCountsSumToLength ==
  (called = "getOverallStats" /\ \A i \in 1..Len(before) : before[i].achievement \in Tiers) =>
    /\ result.goldDays + result.silverDays + result.bronzeDays + result.failedDays = Len(before)
    /\ result.totalDays = Len(before)

\* the stats of a list with a bronze day and a day of another tier
C18_Witness ==
  /\ called = "getOverallStats"
  /\ Len(before) >= 2
  /\ result.bronzeDays = 1
  /\ result.goldDays + result.silverDays + result.failedDays = Len(before) - 1

\* the number zero as an average
Zero == [num |-> 0, den |-> 1]

\* C19: on the empty list getFilteredRecords, calculateStreaks,
\* getCompletionTrends and getMonthlyPatterns return the empty list,
\* getWeeklyPatterns returns 7 buckets each with averageCompletion 0 and
\* totalDays 0, and getOverallStats returns totalDays, averageCompletion,
\* goldDays, silverDays, bronzeDays and failedDays all 0.
C19_EmptyInputGivesZeroResults ==
  (called # "none" /\ before = <<>>) =>
    /\ called \in {"getFilteredRecords", "calculateStreaks", "getCompletionTrends",
                   "getMonthlyPatterns"} => result = <<>>
    /\ called = "getWeeklyPatterns" =>
         /\ Len(result) = 7
         /\ \A i \in 1..7 : result[i].averageCompletion = Zero /\ result[i].totalDays = 0
    /\ called = "getOverallStats" =>
         result = [totalDays |-> 0, averageCompletion |-> Zero, goldDays |-> 0,
                   silverDays |-> 0, bronzeDays |-> 0, failedDays |-> 0]

\* getOverallStats was called on the empty list
C19_Witness ==
  /\ called = "getOverallStats"
  /\ before = <<>>
  /\ result.totalDays = 0

\* the habit ids that appear in at least one day of the list
IdsIn(list) ==
  UNION {{list[i].habits[j].id : j \in 1..Len(list[i].habits)} : i \in 1..Len(list)}

\* C20: calculateStreaks on a non-empty day list returns exactly one StreakData
\* per distinct habit id that appears in at least one input day, and a habit
\* with no completed day anywhere gets currentStreak = 0 and longestStreak = 0.
C20_OneStreakPerHabit ==
  (Streaks /\ before # <<>>) =>
    /\ {result[k].habitId : k \in 1..Len(result)} = IdsIn(before)
    /\ Len(result) = Cardinality(IdsIn(before))
    /\ \A k \in 1..Len(result) :
         (\A i \in 1..Len(before) : ~Completed(before[i], result[k].habitId)) =>
           result[k].currentStreak = 0 /\ result[k].longestStreak = 0

\* two days with different habit lists: a habit that only the second day
\* lists, never completed, next to a habit with a completed day
C20_Witness ==
  /\ Streaks
  /\ Len(before) = 2
  /\ Len(result) = 2
  /\ \E k, j \in 1..2 :
       /\ \A i \in 1..Len(before[1].habits) : before[1].habits[i].id # result[k].habitId
       /\ result[k].currentStreak = 0 /\ result[k].longestStreak = 0
       /\ result[j].longestStreak = 1

\* the day of the week of a date, 0 = Sunday: 2023-01-01 was a Sunday
Weekday(date) == DayNumber(date) % 7

\* the Sunday that starts the calendar week of a date, as a day number
WeekOf(date) == DayNumber(date) - Weekday(date)

RECURSIVE Total(_, _)
\* the sum of the completionRate of the days of the list at the indices
Total(list, idx) ==
  IF idx = {} THEN 0
  ELSE LET i == CHOOSE j \in idx : TRUE
       IN  list[i].completionRate + Total(list, idx \ {i})

\* the average is the mean of the completionRate of the days at the indices,
\* 0 for no days
IsMean(average, list, idx) ==
  /\ average.den > 0
  /\ average.num * Cardinality(idx) = average.den * Total(list, idx)
  /\ idx = {} => average.num = 0

\* C21: getWeeklyPatterns returns exactly 7 buckets, Sunday first; each
\* bucket's totalDays is the number of input days on that weekday and its
\* averageCompletion the mean of their completionRate (0 for no day); the
\* totalDays sum to the input length and a bucket with one day reports that
\* day's completionRate.
C21_WeeklyBuckets ==
  called = "getWeeklyPatterns" =>
    /\ Len(result) = 7
    /\ \A w \in 0..6 :
         LET idx == {i \in 1..Len(before) : Weekday(before[i].date) = w}
             bucket == result[w + 1]
         IN  /\ bucket.dayName = w
             /\ bucket.totalDays = Cardinality(idx)
             /\ IsMean(bucket.averageCompletion, before, idx)
             /\ \A i \in idx : idx = {i} =>
                  bucket.averageCompletion = [num |-> before[i].completionRate, den |-> 1]
    /\ result[1].totalDays + result[2].totalDays + result[3].totalDays + result[4].totalDays
         + result[5].totalDays + result[6].totalDays + result[7].totalDays = Len(before)

\* two Wednesdays a week apart, one completed and one not, average 50
C21_Witness ==
  /\ called = "getWeeklyPatterns"
  /\ Len(before) = 2
  /\ before[1].date # before[2].date
  /\ result[4].totalDays = 2
  /\ result[4].averageCompletion = [num |-> 50, den |-> 1]

\* C22: getMonthlyPatterns puts two input days in the same bucket exactly when
\* they belong to the same calendar week (Sunday to Saturday); each bucket
\* reports the mean completionRate and the count of its days, the counts sum
\* to the input length, and the buckets come in the order their week is first
\* met in the input.
C22_MonthlyBucketsAreCalendarWeeks ==
  called = "getMonthlyPatterns" =>
    LET weeks == {WeekOf(before[i].date) : i \in 1..Len(before)}
        first(w) == CHOOSE i \in 1..Len(before) :
                      /\ WeekOf(before[i].date) = w
                      /\ \A j \in 1..(i - 1) : WeekOf(before[j].date) # w
    IN  /\ Len(result) = Cardinality(weeks)
        /\ \A k \in 1..Len(result) :
             \E w \in weeks :
               LET idx == {i \in 1..Len(before) : WeekOf(before[i].date) = w}
               IN  /\ result[k].totalDays = Cardinality(idx)
                   /\ IsMean(result[k].averageCompletion, before, idx)
                   /\ Cardinality({v \in weeks : first(v) < first(w)}) = k - 1

\* C23: getCompletionTrends returns exactly one row per input day, in ascending
\* order of date, each row with the month and day, the completionRate and the
\* achievement of its day.
C23_OneTrendRowPerDay ==
  called = "getCompletionTrends" =>
    /\ Len(result) = Len(before)
    /\ \E p \in Permutations(1..Len(before)) :
         /\ \A i, j \in 1..Len(before) :
              i < j => OnOrBefore(before[p[i]].date, before[p[j]].date)
         /\ \A k \in 1..Len(before) :
              /\ result[k].date = [m |-> before[p[k]].date.m, d |-> before[p[k]].date.d]
              /\ result[k].completionRate = before[p[k]].completionRate
              /\ result[k].achievement = before[p[k]].achievement

\* three days given out of order, with different rates
C23_Witness ==
  /\ called = "getCompletionTrends"
  /\ Len(before) = 3
  /\ ~OnOrBefore(before[1].date, before[2].date)
  /\ ~OnOrBefore(before[2].date, before[3].date)
  /\ result[1].completionRate # result[3].completionRate
  /\ result[1].achievement = before[3].achievement

\* C27: an aggregated day has achievement gold if and only if the habit list
\* is non-empty and every current habit is completed on that date, for every
\* habit count.
C27_GoldIffAllCompleted ==
  \A c \in Components : \A k \in 1..Len(analyticsRecords[c]) :
    analyticsRecords[c][k].achievement = "gold" <=>
      (Len(habits[c]) > 0 /\ CompletedCount(c, k) = Len(habits[c]))

\* C26: whenever useHabits reports loading = false, both the habits load and
\* the records load have finished.
C26_LoadingClearedAfterBothLoads ==
  \A c \in Components :
    ~loading[c] => loads[c] = {"loadHabits", "loadRecords"}

\* the raw day with the habit flipped, as toggleHabit builds it
Toggled(day, h) ==
  [k \in DOMAIN day \cup {h} |->
     IF k = h THEN [completed |-> ~(h \in DOMAIN day /\ day[h].completed)] ELSE day[k]]

\* the two day data were built from one snapshot of the day by toggling two
\* different habits
FromOneSnapshot(first, second, h1, h2) ==
  /\ h1 # h2
  /\ \E day \in RawDays : first = Toggled(day, h1) /\ second = Toggled(day, h2)

\* C25: when two different habits are toggled on one date and the second
\* toggle reads the same snapshot of the records as the first, then after both
\* saves have completed (and no habit was deleted) the store and the records
\* map of the component hold both toggled states for the date.
C25_TogglesAreNotLost ==
  \A n, m \in 1..Len(calls) : \A h1, h2 \in HabitIds :
    (/\ n < m
     /\ calls[n].comp = calls[m].comp /\ calls[n].date = calls[m].date
     /\ calls[n].pc = "saved" /\ calls[m].pc = "saved"
     /\ deletes = <<>>
     /\ FromOneSnapshot(calls[n].dayData, calls[m].dayData, h1, h2)) =>
      LET rows == RowsOfDate(habitRecords, calls[n].date)
          entry == Entry(records[calls[n].comp], calls[n].date)
      IN  /\ [habit_id |-> h1, date |-> calls[n].date,
              completed |-> calls[n].dayData[h1].completed] \in rows
          /\ [habit_id |-> h2, date |-> calls[m].date,
              completed |-> calls[m].dayData[h2].completed] \in rows
          /\ entry # <<>>
          /\ h1 \in DOMAIN entry[1] /\ entry[1][h1] = calls[n].dayData[h1]
          /\ h2 \in DOMAIN entry[1] /\ entry[1][h2] = calls[m].dayData[h2]

\* the step takes a call of the sequence into the store's error or out of it
Refused(seq, n) == n \in DOMAIN seq /\ seq'[n].pc # seq[n].pc /\ "error" \in {seq[n].pc, seq'[n].pc}

\* C28: when the store answers addHabit, updateHabit or deleteHabit with an
\* error, the steps of the call after the request leave the habit list and the
\* records map of every component as they were, and the call ends in its error
\* toast
C28_StoreErrorLeavesLocalState ==
  [][\A n \in 1..(MaxEdits + MaxDeletes) :
       /\ (Refused(edits, n) \/ Refused(deletes, n)) => (habits' = habits /\ records' = records)
       /\ (Refused(edits, n) /\ edits[n].pc = "error") => edits'[n].pc = "toast"
       /\ (Refused(deletes, n) /\ deletes[n].pc = "error") => deletes'[n].pc = "toast"]_vars

\* an addHabit, an updateHabit and a deleteHabit each ended in the error toast
\* on a page that has habits and records
C28_Witness ==
  /\ \E n \in 1..Len(edits) : edits[n].op = "addHabit" /\ edits[n].pc = "toast"
  /\ \E n \in 1..Len(edits) : edits[n].op = "updateHabit" /\ edits[n].pc = "toast"
  /\ \E n \in 1..Len(deletes) : deletes[n].pc = "toast"
  /\ habits["Analytics"] # <<>>
  /\ \E k \in 1..Len(records["Analytics"]) : DOMAIN records["Analytics"][k].day # {}

\* C29: once a deleteHabit has succeeded on a page whose records were loaded,
\* and no saveDay and no other deleteHabit is under way, the records map of
\* the page is the map loadRecords builds from the rows of the store
C29_DeleteLeavesTheLoadedMap ==
  ( /\ calls = <<>>
    /\ records["Analytics"] # <<>>
    /\ \E n \in 1..Len(deletes) : deletes[n].pc = "done"
    /\ \A n \in 1..Len(deletes) : deletes[n].pc \in {"done", "toast"} )
  => records["Analytics"] = recordsMap(habitRecords)

\* C24: every setSession the widget has called and every reload it has made
\* on a message answered a message of an auth window the widget had opened
C24_OnlyItsPopupIsHeard ==
  /\ \A n \in 1..Len(sessions) : sessions[n].source \in 1..windows
  /\ \A reload \in reloads : reload.cause \in Paths => reload.source \in 1..windows

\* C30: on each path an AUTH_SESSION of the auth window is followed by its
\* AUTH_SUCCESS, and the widget has made no reload on an AUTH_SUCCESS while
\* the setSession of the AUTH_SESSION before it was under way
C30_NoReloadDuringSetSession ==
  /\ \A p \in Paths : \A i \in 1..Len(inbox[p]) :
       (inbox[p][i].type = "AUTH_SESSION" /\ inbox[p][i].source # Other)
         => /\ i < Len(inbox[p])
            /\ inbox[p][i + 1].type = "AUTH_SUCCESS"
            /\ inbox[p][i + 1].source = inbox[p][i].source
  /\ \A reload \in reloads :
       (reload.cause \in Paths /\ reload.source # Other) => ~reload.during
====
